---- MODULE Spec2Model ----
(***************************************************************************)
(* Model of scripts/replace_posters.py: one run of main().                 *)
(*                                                                         *)
(* A file's content is represented by its SHA256 digest, so file_sha256 of *)
(* a file is the stored value.  None (0) is Python's None: the path does   *)
(* not exist.  Other (-1) is content whose digest is that of no pool       *)
(* image: an old poster that is not in the pool, or a destination that a   *)
(* failed shutil.copy2 left half written.                                  *)
(*                                                                         *)
(* The world list holds the worlds 1..NumWorlds once each, in order.       *)
(* Pool filenames are 1..Len(pool_images); poster<k>.png is slot k.        *)
(* files is the directory vrc/<world> of the world being processed, the    *)
(* only directory an iteration reads or writes; its content is an input    *)
(* read when the iteration lists it, and files0 keeps what was listed.     *)
(* log records, for the world being processed, the warnings, errors,       *)
(* selections, copies and git commands in the order they happen; git_log   *)
(* records every git_run of the run; replaced holds the worlds in which a  *)
(* copy succeeded.  The locals of an iteration are read by no later        *)
(* iteration before they are assigned again, so the model resets them when *)
(* the iteration ends; used_hashes alone is left as the iteration left it, *)
(* so that line 137 is what empties it.                                    *)
(*                                                                         *)
(* The exit status of a git command, the result of os.remove and of        *)
(* shutil.copy2, and the presence of the token are inputs of the step that *)
(* reads them.  Listing a directory and hashing a file that exists are     *)
(* taken to succeed.                                                       *)
(***************************************************************************)
EXTENDS Integers, Sequences, FiniteSets, TLC

NumWorlds == 2
MaxSlots == 2
MaxPool == 3
NumHashes == 2

None == 0
Other == 0 - 1

Worlds == 1..NumWorlds
Hashes == 1..NumHashes

VARIABLES pc, w, files, files0, pool_images, poster_files, available,
          used_hashes, selected, current_hashes, idx, i, changed, log,
          git_log, replaced

vars == <<pc, w, files, files0, pool_images, poster_files, available,
          used_hashes, selected, current_hashes, idx, i, changed, log,
          git_log, replaced>>

Ev(e, v, s, f, b) == [ev |-> e, world |-> v, slot |-> s, fname |-> f, flag |-> b]

Min(S) == CHOOSE x \in S : \A y \in S : x <= y

\* every order random.shuffle can leave a list of n elements in
Shuffles(n) ==
    {p \in [1..n -> 1..n] : \A a, b \in 1..n : a # b => p[a] # p[b]}

\* the catalogs the loop over os.listdir(POOL_DIR) can build
Catalogs == UNION {[1..n -> Hashes] : n \in 0..MaxPool}

\* the poster files an existing world directory can hold when it is listed
PosterDirs == UNION {[1..n -> {None, Other} \cup Hashes] : n \in 0..MaxSlots}

\* get_poster_files: the poster numbers present, ascending
get_poster_files(dir) == [k \in 1..Len(dir) |-> k]

\* a git_run that never raises
GitRunRaises_never(check, rc) == FALSE

\* git_run: the command raises when check is set and the exit status is not 0
GitRunRaises(check, rc) == check /\ rc # 0

\* a primary pass that forgets the previous hash
PrimaryOk_noprev(h, used, prev) == h \notin used

\* the test of the primary pass
PrimaryOk(h, used, prev) == h \notin used /\ h # prev

\* a fallback pass that forgets the used hashes
FallbackOk_any(h, used) == TRUE

\* a fallback pass with the membership test inverted
FallbackOk_inverted(h, used) == h \in used

\* the test of the fallback pass
FallbackOk(h, used) == h \notin used

\* first filename of avail, in order, that the primary pass accepts; 0: none
PrimaryPick(avail, pool, used, prev) ==
    LET S == {k \in 1..Len(avail) : PrimaryOk(pool[avail[k]], used, prev)}
    IN  IF S = {} THEN 0 ELSE avail[Min(S)]

\* first filename of avail, in order, that the fallback pass accepts; 0: none
FallbackPick(avail, pool, used) ==
    LET S == {k \in 1..Len(avail) : FallbackOk(pool[avail[k]], used)}
    IN  IF S = {} THEN 0 ELSE avail[Min(S)]

\* a fallback loop that does not set found
FoundAfterFallback_unset(fb) == FALSE

\* found after the fallback loop
FoundAfterFallback(fb) == fb # 0

\* a skip test that only catches an empty selection
IsIncomplete_empty(sel, posters) == Len(sel) = 0

\* the test that skips a world after the selection loop
IsIncomplete(sel, posters) == Len(sel) < Len(posters)

\* used_hashes kept from one world to the next
FreshUsed_kept(old) == old

\* used_hashes at the start of a world, given the value the last one left
FreshUsed(old) == {}

\* a commit after every applied world
ShouldCommit_always(ch) == TRUE

\* the test that guards the add and the commit of a world
ShouldCommit(ch) == ch

Init ==
    /\ pc = "config_name"
    /\ w = 1
    /\ files = <<>>
    /\ files0 = <<>>
    /\ pool_images = <<>>
    /\ poster_files = <<>>
    /\ available = <<>>
    /\ used_hashes = {}
    /\ selected = <<>>
    /\ current_hashes = <<>>
    /\ idx = 0
    /\ i = 0
    /\ changed = FALSE
    /\ log = <<>>
    /\ git_log = <<>>
    /\ replaced = {}

\* one call of git_run: the command is printed and run; a failure raises
GitRun(cmd, v, rc, next) ==
    /\ git_log' = Append(git_log, Ev(cmd, v, 0, 0, rc = 0))
    /\ pc' = IF GitRunRaises(TRUE, rc) THEN "aborted" ELSE next

\* the iteration of the world loop ends: on to the next world
EndIteration ==
    /\ w' = w + 1
    /\ files' = <<>>
    /\ files0' = <<>>
    /\ poster_files' = <<>>
    /\ available' = <<>>
    /\ selected' = <<>>
    /\ current_hashes' = <<>>
    /\ idx' = 0
    /\ i' = 0
    /\ changed' = FALSE
    /\ log' = <<>>
    /\ UNCHANGED <<pool_images, used_hashes, replaced>>

ConfigName ==
    /\ pc = "config_name"
    /\ \E rc \in {0, 1} : GitRun("config", 0, rc, "config_email")
    /\ UNCHANGED <<w, files, files0, pool_images, poster_files, available,
                   used_hashes, selected, current_hashes, idx, i, changed,
                   log, replaced>>

ConfigEmail ==
    /\ pc = "config_email"
    /\ \E rc \in {0, 1} : GitRun("config", 0, rc, "set_url")
    /\ UNCHANGED <<w, files, files0, pool_images, poster_files, available,
                   used_hashes, selected, current_hashes, idx, i, changed,
                   log, replaced>>

\* the rest of setup_git: the remote is rewritten only when a token is set
SetUrl ==
    /\ pc = "set_url"
    /\ \E token \in BOOLEAN :
          IF token
          THEN \E rc \in {0, 1} : GitRun("set-url", 0, rc, "catalog")
          ELSE pc' = "catalog" /\ git_log' = git_log
    /\ UNCHANGED <<w, files, files0, pool_images, poster_files, available,
                   used_hashes, selected, current_hashes, idx, i, changed,
                   log, replaced>>

\* get_worlds and the pool catalog loop
BuildCatalog ==
    /\ pc = "catalog"
    /\ \E cat \in Catalogs : pool_images' = cat
    /\ w' = 1
    /\ pc' = "world"
    /\ UNCHANGED <<files, files0, poster_files, available, used_hashes,
                   selected, current_hashes, idx, i, changed, log, git_log,
                   replaced>>

\* vrc/<world> is no directory: continue
WorldMissing ==
    /\ pc = "world"
    /\ w <= NumWorlds
    /\ EndIteration
    /\ UNCHANGED <<pc, git_log>>

\* the directory holds no poster file: continue
NoPosters ==
    /\ pc = "world"
    /\ w <= NumWorlds
    /\ \E dir \in PosterDirs : get_poster_files(dir) = <<>>
    /\ EndIteration
    /\ UNCHANGED <<pc, git_log>>

\* the world has posters: fresh locals, the shuffle, the current hashes
BeginWorld ==
    /\ pc = "world"
    /\ w <= NumWorlds
    /\ \E dir \in PosterDirs :
          /\ get_poster_files(dir) # <<>>
          /\ files' = dir
          /\ files0' = dir
          /\ poster_files' = get_poster_files(dir)
          /\ current_hashes' = [k \in 1..Len(dir) |-> dir[k]]
    /\ used_hashes' = FreshUsed(used_hashes)
    /\ selected' = <<>>
    /\ \E p \in Shuffles(Len(pool_images)) : available' = p
    /\ idx' = 1
    /\ log' = <<>>
    /\ pc' = "select"
    /\ UNCHANGED <<w, pool_images, i, changed, git_log, replaced>>

\* one iteration of the loop over current_hashes
SelectSlot ==
    /\ pc = "select"
    /\ idx <= Len(current_hashes)
    /\ LET prev == current_hashes[idx]
           pr == PrimaryPick(available, pool_images, used_hashes, prev)
           fb == FallbackPick(available, pool_images, used_hashes)
           slot == poster_files[idx]
       IN  IF pr # 0
           THEN /\ selected' = Append(selected, <<pr, pool_images[pr]>>)
                /\ used_hashes' = used_hashes \cup {pool_images[pr]}
                /\ log' = Append(log, Ev("select", w, slot, pr, FALSE))
                /\ idx' = idx + 1
                /\ pc' = IF idx = Len(current_hashes) THEN "check" ELSE "select"
           ELSE /\ selected' = IF fb # 0
                               THEN Append(selected, <<fb, pool_images[fb]>>)
                               ELSE selected
                /\ used_hashes' = IF fb # 0
                                  THEN used_hashes \cup {pool_images[fb]}
                                  ELSE used_hashes
                /\ log' = log \o <<Ev("warn", w, slot, 0, FALSE)>>
                              \o (IF fb # 0
                                  THEN <<Ev("select", w, slot, fb, TRUE)>>
                                  ELSE <<>>)
                              \o (IF FoundAfterFallback(fb)
                                  THEN <<>>
                                  ELSE <<Ev("error", w, 0, 0, FALSE)>>)
                /\ idx' = IF FoundAfterFallback(fb) THEN idx + 1 ELSE idx
                /\ pc' = IF FoundAfterFallback(fb) /\ idx < Len(current_hashes)
                         THEN "select" ELSE "check"
    /\ UNCHANGED <<w, files, files0, pool_images, poster_files, available,
                   current_hashes, i, changed, git_log, replaced>>

\* too few images selected: the world is skipped
SkipIncomplete ==
    /\ pc = "check"
    /\ IsIncomplete(selected, poster_files)
    /\ EndIteration
    /\ pc' = "world"
    /\ UNCHANGED git_log

StartCopy ==
    /\ pc = "check"
    /\ ~IsIncomplete(selected, poster_files)
    /\ changed' = FALSE
    /\ i' = 1
    /\ pc' = "copy"
    /\ UNCHANGED <<w, files, files0, pool_images, poster_files, available,
                   used_hashes, selected, current_hashes, idx, log, git_log,
                   replaced>>

\* the source or the destination directory is gone: continue
CopyPrecheckFails ==
    /\ pc = "copy"
    /\ i <= Len(selected)
    /\ log' = Append(log, Ev("copy", w, poster_files[i], selected[i][1], FALSE))
    /\ i' = i + 1
    /\ UNCHANGED <<pc, w, files, files0, pool_images, poster_files, available,
                   used_hashes, selected, current_hashes, idx, changed,
                   git_log, replaced>>

\* remove the destination when it exists, then copy2
CopySlot ==
    /\ pc = "copy"
    /\ i <= Len(selected)
    /\ \E removed \in BOOLEAN, res \in {"ok", "fail", "torn"} :
          LET dst == poster_files[i]
              before == files[dst]
              mid == IF before # None /\ removed THEN None ELSE before
              after == CASE res = "ok" -> selected[i][2]
                         [] res = "fail" -> mid
                         [] res = "torn" -> Other
          IN  /\ files' = [files EXCEPT ![dst] = after]
              /\ changed' = IF res = "ok" THEN TRUE ELSE changed
              /\ replaced' = IF res = "ok" THEN replaced \cup {w} ELSE replaced
              /\ log' = Append(log, Ev("copy", w, dst, selected[i][1], res = "ok"))
    /\ i' = i + 1
    /\ UNCHANGED <<pc, w, files0, pool_images, poster_files, available,
                   used_hashes, selected, current_hashes, idx, git_log>>

\* the copy loop is over and something changed: on to the add
CopyDoneChanged ==
    /\ pc = "copy"
    /\ i > Len(selected)
    /\ ShouldCommit(changed)
    /\ pc' = "add"
    /\ UNCHANGED <<w, files, files0, pool_images, poster_files, available,
                   used_hashes, selected, current_hashes, idx, i, changed,
                   log, git_log, replaced>>

\* the copy loop is over and nothing changed: no commit
CopyDoneUnchanged ==
    /\ pc = "copy"
    /\ i > Len(selected)
    /\ ~ShouldCommit(changed)
    /\ EndIteration
    /\ pc' = "world"
    /\ UNCHANGED git_log

GitAdd ==
    /\ pc = "add"
    /\ \E rc \in {0, 1} :
          /\ GitRun("add", w, rc, "commit")
          /\ log' = Append(log, Ev("add", w, 0, 0, rc = 0))
    /\ UNCHANGED <<w, files, files0, pool_images, poster_files, available,
                   used_hashes, selected, current_hashes, idx, i, changed,
                   replaced>>

GitCommit ==
    /\ pc = "commit"
    /\ \E rc \in {0, 1} :
          /\ GitRun("commit", w, rc, "world")
          /\ IF GitRunRaises(TRUE, rc)
             THEN /\ log' = Append(log, Ev("commit", w, 0, 0, FALSE))
                  /\ UNCHANGED <<w, files, files0, pool_images, poster_files,
                                 available, used_hashes, selected,
                                 current_hashes, idx, i, changed, replaced>>
             ELSE EndIteration

\* the world loop is over: push once
GitPush ==
    /\ pc = "world"
    /\ w > NumWorlds
    /\ \E rc \in {0, 1} : GitRun("push", 0, rc, "done")
    /\ UNCHANGED <<w, files, files0, pool_images, poster_files, available,
                   used_hashes, selected, current_hashes, idx, i, changed,
                   log, replaced>>

Next ==
    \/ ConfigName
    \/ ConfigEmail
    \/ SetUrl
    \/ BuildCatalog
    \/ WorldMissing
    \/ NoPosters
    \/ BeginWorld
    \/ SelectSlot
    \/ SkipIncomplete
    \/ StartCopy
    \/ CopyPrecheckFails
    \/ CopySlot
    \/ CopyDoneChanged
    \/ CopyDoneUnchanged
    \/ GitAdd
    \/ GitCommit
    \/ GitPush

Spec == Init /\ [][Next]_vars

(***************************************************************************)
(* Properties                                                              *)
(***************************************************************************)

\* the distinct content hashes of a catalog
DistinctHashes(pool) == {pool[k] : k \in 1..Len(pool)}

\* an iteration of the world loop has listed posters and not yet ended
InWorld == pc \in {"select", "check", "copy", "add", "commit"}

Selects == {k \in 1..Len(log) : log[k].ev = "select"}

FallbackSelects == {k \in Selects : log[k].flag}

FailedCopies == {k \in 1..Len(log) : log[k].ev = "copy" /\ ~log[k].flag}

OkCopies == {k \in 1..Len(log) : log[k].ev = "copy" /\ log[k].flag}

GitFailed == \E k \in 1..Len(git_log) : ~git_log[k].flag

GitEvents(cmd, v) ==
    {k \in 1..Len(git_log) : git_log[k].ev = cmd /\ git_log[k].world = v}

Pushes == {k \in 1..Len(git_log) : git_log[k].ev = "push"}

\* C1: the images selected for one world have pairwise distinct hashes: two
\* selections logged for the world, primary or fallback, never have the same
\* hash, and a complete assignment holds pairwise distinct hashes.
C1_NoDuplicate ==
    /\ \A a, b \in Selects :
          a # b => pool_images[log[a].fname] # pool_images[log[b].fname]
    /\ (InWorld /\ Len(selected) = Len(poster_files)) =>
          \A a, b \in 1..Len(selected) : a # b => selected[a][2] # selected[b][2]

\* a complete two-slot assignment from a catalog in which two filenames share
\* a hash, the second slot resolved by the fallback pass
C1_Witness ==
    /\ pc = "check"
    /\ Len(selected) = 2
    /\ Len(poster_files) = 2
    /\ \E a, b \in 1..Len(pool_images) : a # b /\ pool_images[a] = pool_images[b]
    /\ FallbackSelects # {}

\* the pool holds fewer distinct hashes than the world has poster slots
Exhausted ==
    InWorld /\ Cardinality(DistinctHashes(pool_images)) < Len(poster_files)

\* C2: a world with more poster slots than the pool has distinct hashes ends
\* its selection incomplete, keeps every poster file as it was, gets no copy,
\* no git add and no git commit, and is followed by the next world.
C2_Exhaustion ==
    /\ [](Exhausted =>
            /\ files = files0
            /\ pc \in {"select", "check"}
            /\ (pc = "check" => Len(selected) < Len(poster_files)))
    /\ [][Exhausted =>
            /\ git_log' = git_log
            /\ (pc = "check" => pc' = "world" /\ w' = w + 1)]_vars

\* a world of two slots over a pool of one hash: one image was selected and
\* the selection broke off
C2_Witness ==
    /\ pc = "check"
    /\ Exhausted
    /\ Len(selected) = 1
    /\ \E k \in 1..Len(log) : log[k].ev = "error"

\* some assignment gives every slot an image of another hash than the slot
\* had, with pairwise distinct hashes
AvoidingAssignmentExists(pool, prevs) ==
    \E f \in [1..Len(prevs) -> 1..Len(pool)] :
        /\ \A a, b \in 1..Len(prevs) : a # b => pool[f[a]] # pool[f[b]]
        /\ \A a \in 1..Len(prevs) : pool[f[a]] # prevs[a]

\* C3: when some assignment avoids every slot's previous hash, the selection
\* made avoids them too and uses the fallback pass for no slot.
C3_AvoidsWhenPossible ==
    (pc = "check" /\ AvoidingAssignmentExists(pool_images, files0)) =>
        /\ FallbackSelects = {}
        /\ Len(selected) = Len(poster_files)
        /\ \A k \in 1..Len(selected) : selected[k][2] # files0[k]

\* C4: a slot resolved by the primary pass gets a hash other than its
\* previous one; a slot gets its previous hash only through the fallback
\* pass; a fallback selection comes after a warning for that slot and world.
C4_AvoidPrevious ==
    \A k \in Selects :
        LET h == pool_images[log[k].fname]
            prev == files0[log[k].slot]
        IN  /\ ~log[k].flag => h # prev
            /\ h = prev => log[k].flag
            /\ log[k].flag =>
                  \E j \in 1..(k - 1) :
                      /\ log[j].ev = "warn"
                      /\ log[j].slot = log[k].slot
                      /\ log[j].world = log[k].world

\* a slot with no existing file resolved by the primary pass, and a slot
\* that got its previous hash back from the fallback pass
C4_Witness ==
    /\ \E k \in Selects : ~log[k].flag /\ files0[log[k].slot] = None
    /\ \E k \in FallbackSelects :
          pool_images[log[k].fname] = files0[log[k].slot]

\* C5: while no git command has failed: a world has a commit only if a copy
\* succeeded in it, and has exactly one once it is over; the commit comes
\* right after the add of the same world, after all the copies of the world;
\* commits are in world order; the one push comes last, after every world.
C5_CommitPushOrder ==
    ~GitFailed =>
        /\ \A v \in Worlds :
              /\ Cardinality(GitEvents("commit", v)) <= 1
              /\ Cardinality(GitEvents("add", v)) <= 1
              /\ v \notin replaced =>
                    GitEvents("commit", v) = {} /\ GitEvents("add", v) = {}
              /\ (v \in replaced /\ (v < w \/ pc = "done")) =>
                    Cardinality(GitEvents("commit", v)) = 1
              /\ \A k \in GitEvents("commit", v) :
                    k > 1 /\ (k - 1) \in GitEvents("add", v)
        /\ \A a, b \in 1..Len(git_log) :
              (a < b /\ git_log[a].ev = "commit" /\ git_log[b].ev = "commit")
                  => git_log[a].world < git_log[b].world
        /\ (pc \in {"add", "commit"} \/ GitEvents("add", w) # {}) =>
              /\ w \in replaced
              /\ \A s \in 1..Len(poster_files) :
                    \E k \in 1..Len(log) : log[k].ev = "copy" /\ log[k].slot = s
        /\ Cardinality(Pushes) = (IF pc = "done" THEN 1 ELSE 0)
        /\ \A k \in Pushes : k = Len(git_log) /\ w > NumWorlds

\* a finished run with a commit for each of two worlds
C5_Witness ==
    /\ pc = "done"
    /\ ~GitFailed
    /\ GitEvents("commit", 1) # {}
    /\ GitEvents("commit", 2) # {}
    /\ Pushes # {}

\* C6: a git command that fails ends the run: the failure is the last git
\* command, and no step (world, removal, copy, add, commit, push, retry) is
\* taken once a git command has failed.
C6_FatalGitFailure ==
    /\ [](GitFailed =>
            /\ pc = "aborted"
            /\ \A k \in 1..Len(git_log) : ~git_log[k].flag => k = Len(git_log))
    /\ [][~GitFailed]_vars

\* the add of the first world failed, with a later world not yet examined
C6_Witness ==
    /\ pc = "aborted"
    /\ w = 1
    /\ w < NumWorlds
    /\ git_log[Len(git_log)].ev = "add"
    /\ ~git_log[Len(git_log)].flag

\* C7: the selection loop of every world starts with no used hash, nothing
\* selected and the whole catalog as candidates, and the used hashes of a
\* world are those of its own selections only.
C7_Independence ==
    /\ (pc = "select" /\ idx = 1) =>
          /\ used_hashes = {}
          /\ selected = <<>>
          /\ Len(available) = Len(pool_images)
          /\ {available[k] : k \in 1..Len(available)} = 1..Len(pool_images)
    /\ InWorld =>
          used_hashes = {selected[k][2] : k \in 1..Len(selected)}

\* the second world got the only pool image, which the first world got too
C7_Witness ==
    /\ w = 2
    /\ pc = "check"
    /\ 1 \in replaced
    /\ Len(pool_images) = 1
    /\ Len(selected) = 1

\* C8: when the pool holds at least as many distinct hashes as the world has
\* poster slots, the selection loop ends with one image for every slot.
C8_OnlyExhaustionFails ==
    (pc = "check"
        /\ Cardinality(DistinctHashes(pool_images)) >= Len(poster_files)) =>
        Len(selected) = Len(poster_files)

\* two slots, exactly two distinct hashes, and the fallback pass was needed
C8_Witness ==
    /\ pc = "check"
    /\ Len(poster_files) = 2
    /\ Cardinality(DistinctHashes(pool_images)) = 2
    /\ FallbackSelects # {}
    /\ Len(selected) = 2

\* C9: a slot whose copy failed still has the content it had before the
\* apply step.
C9_FailedCopyUntouched ==
    \A k \in FailedCopies : files[log[k].slot] = files0[log[k].slot]

====
